---------------------------- MODULE Spec2Model ----------------------------
(***************************************************************************)
(* Model of the Excel import handler of POST /utils/import/:collection     *)
(* (src/unnamed/part_000, lines 134-621): schema index building            *)
(* (discoverFields), header normalisation and resolution, value coercion   *)
(* (transformValue), the nested path writer (setByPath) and the row loop.  *)
(*                                                                         *)
(* Strings are sequences of UTF-16 code units, so that toLowerCase, trim,  *)
(* split, includes and the regular-expression replacements are computed    *)
(* character by character.  Str("phone") converts an ASCII literal.        *)
(***************************************************************************)
EXTENDS Integers, Sequences, FiniteSets, TLC

(***************************************************************************)
(* Strings                                                                 *)
(***************************************************************************)
\* Code units of the ASCII characters that literals of the model use.
Digits == "0123456789"
UpperLetters == "ABCDEFGHIJKLMNOPQRSTUVWXYZ"
LowerLetters == "abcdefghijklmnopqrstuvwxyz"
Punctuation == (" " :> 32) @@ ("(" :> 40) @@ (")" :> 41) @@ ("+" :> 43) @@
               ("-" :> 45) @@ ("." :> 46) @@ (":" :> 58) @@ ("[" :> 91) @@
               ("]" :> 93) @@ ("_" :> 95) @@ ("{" :> 123) @@ ("}" :> 125)

IndexIn(table, c) == CHOOSE i \in 1..Len(table) : SubSeq(table, i, i) = c

InTable(table, c) == \E i \in 1..Len(table) : SubSeq(table, i, i) = c

Code(c) ==
    IF InTable(Digits, c) THEN 47 + IndexIn(Digits, c)
    ELSE IF InTable(UpperLetters, c) THEN 64 + IndexIn(UpperLetters, c)
    ELSE IF InTable(LowerLetters, c) THEN 96 + IndexIn(LowerLetters, c)
    ELSE Punctuation[c]

Str(s) == [i \in 1..Len(s) |-> Code(SubSeq(s, i, i))]

\* Separator of path segments (split on it, source line 450).
ch_dot == 46

IsDigit(c) == c >= 48 /\ c <= 57

\* White space as matched by \s and removed by String.prototype.trim.
IsSpace(c) == c \in {9, 10, 11, 12, 13, 32, 160}

\* String.prototype.toLowerCase on one code unit: Latin A-Z, Cyrillic
\* U+0410..U+042F (to U+0430..U+044F) and U+0400..U+040F (to U+0450..U+045F).
LowerChar(c) ==
    IF c >= 65 /\ c <= 90 THEN c + 32
    ELSE IF c >= 1040 /\ c <= 1071 THEN c + 32
    ELSE IF c >= 1024 /\ c <= 1039 THEN c + 80
    ELSE c

\* The string as it is, letters of both cases kept.
KeepCase(s) == s

toLowerCase(s) == [i \in 1..Len(s) |-> LowerChar(s[i])]

RECURSIVE TrimStart(_)
TrimStart(s) ==
    IF s # <<>> /\ IsSpace(Head(s)) THEN TrimStart(Tail(s)) ELSE s

RECURSIVE TrimEnd(_)
TrimEnd(s) ==
    IF s # <<>> /\ IsSpace(s[Len(s)]) THEN TrimEnd(SubSeq(s, 1, Len(s) - 1)) ELSE s

trim(s) == TrimEnd(TrimStart(s))

StartsWith(s, p) == Len(s) >= Len(p) /\ SubSeq(s, 1, Len(p)) = p

\* String.prototype.includes
includes(s, p) ==
    \E i \in 1..(Len(s) - Len(p) + 1) : SubSeq(s, i, i + Len(p) - 1) = p

\* String.prototype.split on a one-character separator.
RECURSIVE SplitFrom(_, _, _)
SplitFrom(s, sep, acc) ==
    IF s = <<>> THEN <<acc>>
    ELSE IF Head(s) = sep THEN <<acc>> \o SplitFrom(Tail(s), sep, <<>>)
    ELSE SplitFrom(Tail(s), sep, Append(acc, Head(s)))

split(s, sep) == SplitFrom(s, sep, <<>>)

\* replace(/[set]/g, empty string)
RECURSIVE RemoveChars(_, _)
RemoveChars(s, set) ==
    IF s = <<>> THEN <<>>
    ELSE IF Head(s) \in set THEN RemoveChars(Tail(s), set)
    ELSE <<Head(s)>> \o RemoveChars(Tail(s), set)

\* replace(/\s+/g, r): every maximal run of white space becomes r.
RECURSIVE ReplaceSpaceRuns(_, _)
ReplaceSpaceRuns(s, r) ==
    IF s = <<>> THEN <<>>
    ELSE IF IsSpace(Head(s)) THEN r \o ReplaceSpaceRuns(TrimStart(s), r)
    ELSE <<Head(s)>> \o ReplaceSpaceRuns(Tail(s), r)

\* replace(/p/g, r) for a literal, non-empty pattern p: leftmost matches,
\* scanning resumes after each match.
RECURSIVE ReplaceAll(_, _, _)
ReplaceAll(s, p, r) ==
    IF Len(s) < Len(p) THEN s
    ELSE IF StartsWith(s, p) THEN r \o ReplaceAll(SubSeq(s, Len(p) + 1, Len(s)), p, r)
    ELSE <<Head(s)>> \o ReplaceAll(Tail(s), p, r)

(***************************************************************************)
(* JavaScript values.  Every value is a record tagged by t; a number is    *)
(* int + mil/1000 (mil in 0..999), a Date is its time value in whole days  *)
(* since 1970-01-01 and milliseconds within the day.                       *)
(***************************************************************************)
Undefined == [t |-> "undefined"]
Null == [t |-> "null"]
NaN == [t |-> "number", nan |-> TRUE]
Bool(b) == [t |-> "boolean", b |-> b]
Num(i, m) == [t |-> "number", nan |-> FALSE, int |-> i, mil |-> m]
Whole(i) == Num(i, 0)
String(s) == [t |-> "string", s |-> s]
Obj(f) == [t |-> "object", f |-> f]
Arr(a) == [t |-> "array", a |-> a, f |-> <<>>]
DateObj(d, ms) == [t |-> "date", valid |-> TRUE, days |-> d, ms |-> ms]
InvalidDate == [t |-> "date", valid |-> FALSE]

EmptyObj == Obj(<<>>)

\* The result of an evaluation that throws.
Throw(e) == [t |-> "throw", error |-> e]

IsThrow(v) == v.t = "throw"

\* typeof v
TypeOf(v) ==
    IF v.t \in {"null", "array", "date"} THEN "object" ELSE v.t

\* v.key for an own property of an object or an array; undefined otherwise.
\* (Primitives have no own property under the keys the model uses.)
GetProp(v, key) ==
    IF v.t \in {"object", "array"} /\ key \in DOMAIN v.f THEN v.f[key] ELSE Undefined

\* v.key = x in strict mode: TypeError on null, undefined and primitives.
SetProp(v, key, x) ==
    IF v.t \in {"object", "array"}
    THEN [v EXCEPT !.f = (key :> x) @@ v.f]
    ELSE Throw("TypeError")

\* ToBoolean
Truthy(v) ==
    CASE v.t \in {"undefined", "null"} -> FALSE
      [] v.t = "boolean" -> v.b
      [] v.t = "number" -> ~v.nan /\ (v.int # 0 \/ v.mil # 0)
      [] v.t = "string" -> v.s # <<>>
      [] OTHER -> TRUE

(***************************************************************************)
(* Map objects: keys in insertion order, as iteration sees them.           *)
(***************************************************************************)
EmptyMap == [keys |-> <<>>, vals |-> <<>>]

MapHas(m, k) == k \in DOMAIN m.vals

MapGet(m, k) == m.vals[k]

MapSet(m, k, v) ==
    IF MapHas(m, k)
    THEN [m EXCEPT !.vals[k] = v]
    ELSE [keys |-> Append(m.keys, k), vals |-> (k :> v) @@ m.vals]

(***************************************************************************)
(* Schema source.  A field as fieldsService.readAll returns it: its name,  *)
(* its type, its translations (meta.translations[].translation), its       *)
(* relation markers (meta.special) and schema.foreign_key_table.           *)
(***************************************************************************)
NoCollection == "none"

Field(name, type, translations, special, fk) ==
    [field |-> Str(name), type |-> type,
     translations |-> [i \in 1..Len(translations) |-> Str(translations[i])],
     special |-> special, foreign_key_table |-> fk]

Plain(name, type) == Field(name, type, <<>>, {}, NoCollection)

Labelled(name, type, translations) == Field(name, type, translations, {}, NoCollection)

M2O(name, target) == Field(name, "integer", <<>>, {"m2o"}, target)

O2M(name) == Field(name, "alias", <<>>, {"o2m"}, NoCollection)

\* A row of req.schema.relations.
Relation(collection, related, oneField) ==
    [collection |-> collection, related_collection |-> related, one_field |-> Str(oneField)]

s_create_prefix == Str(".create.")

(***************************************************************************)
(* discoverFields, lines 169-244.  The four maps of lines 164-167 are the  *)
(* fields of one record idx.                                               *)
(***************************************************************************)
EmptyIndex ==
    [headerToPathMap |-> EmptyMap, fieldNamePriority |-> EmptyMap,
     relationFieldPaths |-> EmptyMap, fieldTypesMap |-> EmptyMap]

\* Lines 197-204: every non-empty translation into relationFieldPaths.
RECURSIVE RelationTranslations(_, _, _)
RelationTranslations(m, translations, currentPath) ==
    IF translations = <<>> THEN m
    ELSE RelationTranslations(
            IF Head(translations) # <<>>
            THEN MapSet(m, toLowerCase(Head(translations)), currentPath)
            ELSE m,
            Tail(translations), currentPath)

\* Line 214: a translation is registered unless a field name claimed the key.
TranslationAllowedAnyKey(fieldNamePriority, key) == TRUE

\* Lines 213-217 never reached: no translation enters headerToPathMap.
TranslationNever(fieldNamePriority, key) == FALSE

TranslationAllowed(fieldNamePriority, key) == ~MapHas(fieldNamePriority, key)

\* Lines 208-219: translations into headerToPathMap.
RECURSIVE HeaderTranslations(_, _, _, _)
HeaderTranslations(m, fieldNamePriority, translations, currentPath) ==
    IF translations = <<>> THEN m
    ELSE HeaderTranslations(
            IF Head(translations) # <<>>
               /\ TranslationAllowed(fieldNamePriority, toLowerCase(Head(translations)))
            THEN MapSet(m, toLowerCase(Head(translations)), currentPath)
            ELSE m,
            fieldNamePriority, Tail(translations), currentPath)

\* Lines 179-225: the registrations of one field under pathPrefix.
RegisterField(idx, field, pathPrefix) ==
    LET currentPath == pathPrefix \o field.field
        fieldNameLower == toLowerCase(field.field)
        types == MapSet(idx.fieldTypesMap, currentPath, [type |-> field.type])
        priority == MapSet(idx.fieldNamePriority, fieldNameLower, currentPath)
        byName == MapSet(idx.headerToPathMap, fieldNameLower, currentPath)
        relation ==
            IF pathPrefix # <<>> /\ includes(pathPrefix, s_create_prefix)
            THEN RelationTranslations(
                    MapSet(idx.relationFieldPaths, fieldNameLower, currentPath),
                    field.translations, currentPath)
            ELSE idx.relationFieldPaths
        byTranslation == HeaderTranslations(byName, priority, field.translations, currentPath)
        byPath ==
            IF pathPrefix # <<>>
            THEN MapSet(byTranslation, toLowerCase(currentPath), currentPath)
            ELSE byTranslation
    IN  [headerToPathMap |-> byPath, fieldNamePriority |-> priority,
         relationFieldPaths |-> relation, fieldTypesMap |-> types]

\* Lines 234-236: req.schema.relations.find(...)?.collection
RECURSIVE FindRelation(_, _, _)
FindRelation(relations, collection, fieldName) ==
    IF relations = <<>> THEN NoCollection
    ELSE IF Head(relations).related_collection = collection
            /\ Head(relations).one_field = fieldName
         THEN Head(relations).collection
         ELSE FindRelation(Tail(relations), collection, fieldName)

\* Lines 227-242: the collection a field recurses into, or NoCollection.
RecursionTarget(sch, collection, field) ==
    IF "m2o" \in field.special \/ "o2o" \in field.special
    THEN field.foreign_key_table
    ELSE IF "o2m" \in field.special
         THEN FindRelation(sch.relations, collection, field.field)
         ELSE NoCollection

\* The prefix of the caller followed by the field, where lines 231 and 240
\* start from the field.
ChildPrefixFromRoot(pathPrefix, field) ==
    pathPrefix \o field.field \o (IF "o2m" \in field.special THEN s_create_prefix
                                    ELSE <<ch_dot>>)

\* Lines 231 and 240: the path prefix handed to the recursive call.
ChildPrefix(pathPrefix, field) ==
    IF "o2m" \in field.special
    THEN field.field \o s_create_prefix
    ELSE field.field \o <<ch_dot>>

\* The caller's Set object itself, and a Set that starts empty.
SharedVisited(heap, ref) == [heap |-> heap, ref |-> ref]

EmptyVisited(heap, ref) == [heap |-> Append(heap, {}), ref |-> Len(heap) + 1]

\* new Set(visited), lines 231 and 240: a fresh Set object on the heap.

CopyVisited(heap, ref) == [heap |-> Append(heap, heap[ref]), ref |-> Len(heap) + 1]

(***************************************************************************)
(* Schemas the import is run against.                                      *)
(***************************************************************************)
\* One collection, no relation; a translation ("name") that is also the
\* direct name of a later field, and a direct name ("phone") that is also a
\* translation of a later field.
SchemaFlat ==
    [root |-> "A", relations |-> <<>>,
     fields |-> [c \in {"A"} |->
        << Labelled("title", "string", <<"Name", "Full Name">>),
           Plain("name", "string"),
           Plain("phone", "string"),
           Labelled("mobile", "string", <<"Phone", "Cell">>),
           Plain("visit", "date") >>]]

\* A -> B -> A through many-to-one fields; the translations of B.label are
\* the names of a field of A registered before it and of one registered after.
SchemaCycle ==
    [root |-> "A", relations |-> <<>>,
     fields |-> [c \in {"A", "B"} |->
        IF c = "A" THEN << Plain("id", "integer"), M2O("b", "B"), Plain("zip", "string") >>
        ELSE << Labelled("label", "string", <<"Id", "Zip">>), M2O("a", "A") >>]]

\* Two many-to-one fields of A lead to B; B refers to itself.
SchemaDiamond ==
    [root |-> "A", relations |-> <<>>,
     fields |-> [c \in {"A", "B"} |->
        IF c = "A" THEN << M2O("b1", "B"), M2O("b2", "B") >>
        ELSE << Plain("code", "string"), M2O("parent", "B") >>]]

\* A -> B -> C, two relations deep; a relation without target metadata;
\* B, itself behind a relation, has the one-to-many field items (rows of D).
SchemaChain ==
    [root |-> "A", relations |-> << Relation("D", "B", "items") >>,
     fields |-> [c \in {"A", "B", "C", "D"} |->
        IF c = "A" THEN << Plain("id", "integer"), M2O("b", "B"), M2O("lost", NoCollection) >>
        ELSE IF c = "B" THEN << M2O("c", "C"), O2M("items") >>
        ELSE IF c = "C" THEN << Plain("x", "string") >>
        ELSE << Plain("note", "string") >>]]

\* A has the one-to-many field cars (rows of B whose owner is an A).
SchemaO2M ==
    [root |-> "A", relations |-> << Relation("B", "A", "cars") >>,
     fields |-> [c \in {"A", "B"} |->
        IF c = "A" THEN << Plain("id", "integer"), O2M("cars") >>
        ELSE << Labelled("model", "string", <<"Car", "Id">>), Plain("sold", "date"),
                M2O("owner", "A") >>]]

\* B, reached through the many-to-one field b, has fields of the names of
\* a field of A listed before b and of one listed after it; two fields of A
\* have phone in their names, one of them an integer.
SchemaShadow ==
    [root |-> "A", relations |-> <<>>,
     fields |-> [c \in {"A", "B"} |->
        IF c = "A" THEN << Plain("name", "string"), Plain("phone", "integer"), M2O("b", "B"),
                           Plain("zip", "string"), Plain("home_phone", "string") >>
        ELSE << Plain("name", "string"), Plain("zip", "string") >>]]

Schemas == {SchemaFlat, SchemaCycle, SchemaDiamond, SchemaChain, SchemaO2M, SchemaShadow}

Collections(sch) == DOMAIN sch.fields

(***************************************************************************)
(* State                                                                   *)
(***************************************************************************)
VARIABLES
    schema,          \* req.schema and what fieldsService.readAll answers
    jsonData,        \* the rows of the first sheet (line 161)
    pc,              \* position of the 'file' handler
    stack,           \* the pending calls of discoverFields, innermost last
    heap,            \* the Set objects allocated for visited
    idx,             \* the four maps of lines 164-167
    readAllCalls,    \* the collections fieldsService.readAll was asked for
    skipped,         \* the calls of discoverFields that returned at line 171
    rowIdx,          \* index of the row being processed
    keyIdx,          \* index of the next header of that row
    newRow,          \* the record being built for that row
    transformedData, \* the records pushed so far (line 597)
    imported,        \* what service.import received (line 602)
    raised,          \* the error caught at line 606
    thrown,          \* the error handed to next (lines 614 and 617)
    call,            \* a call of transformValue or setByPath on its own
    result,          \* what that call returned
    fileParts,       \* the mimeType of each file part in the body of the request
    busboy,          \* the state of the multipart parser (lines 132, 625)
    handlers,        \* the position of each run of the 'file' callback
    answers          \* the calls of res.status(200).end() and of next, in order

vars == << schema, jsonData, pc, stack, heap, idx, readAllCalls, skipped, rowIdx,
           keyIdx, newRow, transformedData, imported, raised, thrown, call, result,
           fileParts, busboy, handlers, answers >>

requestVars == << fileParts, busboy, handlers, answers >>

\* The request as a whole is not followed: one run of the 'file' callback
\* or one call of a function is.
NoRequest == fileParts = <<>> /\ busboy = "idle" /\ handlers = <<>> /\ answers = <<>>

NoError == "none"
NotImported == [t |-> "undefined"]

rowVars == << rowIdx, keyIdx, newRow, transformedData, imported, raised, thrown, call, result,
             requestVars >>

\* The errors that fieldsService.readAll and service.import reject with:
\* their code and their message.
ServiceErrors == {"ForbiddenError", "ZlibError", "StorageError"}

ErrorCode(e) ==
    CASE e = "ForbiddenError" -> "FORBIDDEN"
      [] e = "ZlibError" -> "Z_DATA_ERROR"
      [] e = "StorageError" -> "INTERNAL_SERVER_ERROR"
      [] OTHER -> "none"

ErrorMessage(e) ==
    CASE e = "ForbiddenError" -> Str("You do not have permission to access this.")
      [] e = "ZlibError" -> Str("incorrect header check")
      [] e = "StorageError" -> Str("The index of the table is corrupted.")
      [] e = "TypeError" -> Str("Cannot create property on a primitive value")
      [] e = "RangeError" -> Str("Invalid time value")
      [] OTHER -> <<>>

\* Lines 606-617: the error the catch block hands to next.
Handed(err) ==
    IF ErrorCode(err) = "Z_DATA_ERROR" \/ includes(ErrorMessage(err), Str("corrupted"))
    THEN "InvalidPayloadError"
    ELSE err

Top == stack[Len(stack)]

\* The stack without its innermost call; the handler moves on to the rows
\* when the outermost call has returned (line 246).
Popped == SubSeq(stack, 1, Len(stack) - 1)

\* The handler moving on to the rows when any call returns, as if the calls
\* of lines 231 and 240 were not awaited.
ReturnToRows == "rows"

AfterReturn == IF Len(stack) = 1 THEN "rows" ELSE "discover"

\* Lines 170-172: the collection is in this call's visited set.
DiscoverSkip ==
    /\ pc = "discover"
    /\ Top.at = "enter"
    /\ Top.collection \in heap[Top.visited]
    /\ stack' = Popped
    /\ pc' = AfterReturn
    /\ skipped' = Append(skipped, [collection |-> Top.collection,
                                   ancestors |-> {stack[i].collection : i \in 1..(Len(stack) - 1)}])
    /\ UNCHANGED << schema, jsonData, heap, idx, readAllCalls, rowVars >>

\* Lines 174-176: visited.add(collection); await fieldsService.readAll.
DiscoverEnter ==
    /\ pc = "discover"
    /\ Top.at = "enter"
    /\ Top.collection \notin heap[Top.visited]
    /\ heap' = [heap EXCEPT ![Top.visited] = @ \cup {Top.collection}]
    /\ readAllCalls' = Append(readAllCalls, Top.collection)
    /\ stack' = [stack EXCEPT ![Len(stack)] =
                    [@ EXCEPT !.at = "loop", !.fields = schema.fields[Top.collection], !.i = 1]]
    /\ UNCHANGED << schema, jsonData, pc, idx, skipped, rowVars >>

\* Line 176: fieldsService.readAll rejects, after line 174; the error
\* reaches the catch of line 606 through the awaits of lines 231, 240, 246.
ReadAllFails ==
    /\ pc = "discover"
    /\ Top.at = "enter"
    /\ Top.collection \notin heap[Top.visited]
    /\ heap' = [heap EXCEPT ![Top.visited] = @ \cup {Top.collection}]
    /\ readAllCalls' = Append(readAllCalls, Top.collection)
    /\ \E e \in ServiceErrors :
            /\ raised' = e
            /\ thrown' = Handed(e)
    /\ stack' = [stack EXCEPT ![Len(stack)].at = "loop"]
    /\ pc' = "failed"
    /\ UNCHANGED << schema, jsonData, idx, skipped, rowIdx, keyIdx, newRow,
                    transformedData, imported, call, result, requestVars >>

\* Lines 178-242: one iteration of the loop over the fields, up to the
\* recursive call that suspends it.
DiscoverField ==
    /\ pc = "discover"
    /\ Top.at = "loop"
    /\ Top.i <= Len(Top.fields)
    /\ LET field == Top.fields[Top.i]
           target == RecursionTarget(schema, Top.collection, field)
           advanced == [stack EXCEPT ![Len(stack)].i = @ + 1]
           copy == CopyVisited(heap, Top.visited)
       IN  /\ idx' = RegisterField(idx, field, Top.pathPrefix)
           /\ IF target # NoCollection
              THEN /\ heap' = copy.heap
                   /\ stack' = Append(advanced,
                        [collection |-> target, pathPrefix |-> ChildPrefix(Top.pathPrefix, field),
                         visited |-> copy.ref, at |-> "enter", fields |-> <<>>, i |-> 1])
              ELSE /\ heap' = heap
                   /\ stack' = advanced
    /\ UNCHANGED << schema, jsonData, pc, readAllCalls, skipped, rowVars >>

\* Line 244: the loop is over, the call returns.
DiscoverReturn ==
    /\ pc = "discover"
    /\ Top.at = "loop"
    /\ Top.i > Len(Top.fields)
    /\ stack' = Popped
    /\ pc' = AfterReturn
    /\ UNCHANGED << schema, jsonData, heap, idx, readAllCalls, skipped, rowVars >>

(***************************************************************************)
(* Literals.  The Cyrillic ones are given by their code units, with the    *)
(* transliteration in the comment.                                         *)
(***************************************************************************)
\* nomer_telefona_klienta (U+043D...)
ru_phone_phrase ==
    <<1085, 1086, 1084, 1077, 1088, 95, 1090, 1077, 1083, 1077, 1092, 1086, 1085, 1072, 95, 1082, 1083, 1080, 1077, 1085, 1090, 1072>>

\* data_zaezda (U+0434...)
ru_date_phrase ==
    <<1076, 1072, 1090, 1072, 95, 1079, 1072, 1077, 1079, 1076, 1072>>

\* model_avtomobilya (U+043C...)
ru_car_model_phrase ==
    <<1084, 1086, 1076, 1077, 1083, 1100, 95, 1072, 1074, 1090, 1086, 1084, 1086, 1073, 1080, 1083, 1103>>

\* imya_klienta (U+0438...)
ru_first_name_phrase ==
    <<1080, 1084, 1103, 95, 1082, 1083, 1080, 1077, 1085, 1090, 1072>>

\* familiya_klienta (U+0444...)
ru_last_name_phrase ==
    <<1092, 1072, 1084, 1080, 1083, 1080, 1103, 95, 1082, 1083, 1080, 1077, 1085, 1090, 1072>>

\* imya_familiya_konsultanta_po_servisu (U+0438...)
ru_consultant_phrase ==
    <<1080, 1084, 1103, 95, 1092, 1072, 1084, 1080, 1083, 1080, 1103, 95, 1082, 1086, 1085, 1089, 1091, 1083, 1100, 1090, 1072, 1085, 1090, 1072, 95, 1087, 1086, 95, 1089, 1077, 1088, 1074, 1080, 1089, 1091>>

\* data (U+0434...)
ru_data ==
    <<1076, 1072, 1090, 1072>>

\* zaezd (U+0437...)
ru_zaezd ==
    <<1079, 1072, 1077, 1079, 1076>>

\* telefon (U+0442...)
ru_telefon ==
    <<1090, 1077, 1083, 1077, 1092, 1086, 1085>>

\* imya (U+0438...)
ru_imya ==
    <<1080, 1084, 1103>>

\* klienta (U+043A...)
ru_klienta ==
    <<1082, 1083, 1080, 1077, 1085, 1090, 1072>>

\* familiya (U+0444...)
ru_familiya ==
    <<1092, 1072, 1084, 1080, 1083, 1080, 1103>>

\* da (U+0434...)
ru_da ==
    <<1076, 1072>>

s_phone == Str("phone")
s_date == Str("date")
s_car_model == Str("car_model")
s_first_name == Str("first_name")
s_last_name == Str("last_name")
s_second_name == Str("second_name")
s_consultant_name == Str("consultant_name")
s_create == Str("create")
s_update == Str("update")
s_delete == Str("delete")

(***************************************************************************)
(* normalizeHeaderName, lines 249-266.                                     *)
(***************************************************************************)
normalizeHeaderName(header) ==
    LET lowered == toLowerCase(header)
        trimmed == trim(lowered)
        noBreaks == RemoveChars(trimmed, {13, 10})
        noQuotes == RemoveChars(noBreaks, {34, 39})
        joined == ReplaceSpaceRuns(noQuotes, Str("_"))
        r1 == ReplaceAll(joined, ru_phone_phrase, s_phone)
        r2 == ReplaceAll(r1, ru_date_phrase, s_date)
        r3 == ReplaceAll(r2, ru_car_model_phrase, s_car_model)
        r4 == ReplaceAll(r3, ru_first_name_phrase, s_first_name)
        r5 == ReplaceAll(r4, ru_last_name_phrase, s_last_name)
        r6 == ReplaceAll(r5, ru_last_name_phrase, s_second_name)
    IN  ReplaceAll(r6, ru_consultant_phrase, s_consultant_name)

(***************************************************************************)
(* Header resolution, lines 510-563.  NoPath is the undefined path; like   *)
(* the empty string it fails the test of line 565.                         *)
(***************************************************************************)
NoPath == <<>>

\* for (const [key, value] of headerToPathMap) if (key.includes(..)) ...
\* the value of the first key, in insertion order, that contains a token.
RECURSIVE FirstKeyIncluding(_, _, _)
FirstKeyIncluding(m, keys, tokens) ==
    IF keys = <<>> THEN NoPath
    ELSE IF \E tok \in tokens : includes(Head(keys), tok) THEN MapGet(m, Head(keys))
    ELSE FirstKeyIncluding(m, Tail(keys), tokens)

\* The scan of the keys from the last inserted to the first.
ScanIndexBackwards(m, tokens) ==
    FirstKeyIncluding(m, [n \in 1..Len(m.keys) |-> m.keys[Len(m.keys) + 1 - n]], tokens)

ScanIndex(m, tokens) == FirstKeyIncluding(m, m.keys, tokens)

\* Lines 516-563 for lowerHeader (line 512) and raw, the header in lower case.
ResolveKeys(ix, lowerHeader, raw) ==
    IF MapHas(ix.headerToPathMap, lowerHeader)
    THEN MapGet(ix.headerToPathMap, lowerHeader)
    ELSE IF MapHas(ix.relationFieldPaths, lowerHeader)
    THEN MapGet(ix.relationFieldPaths, lowerHeader)
    ELSE IF MapHas(ix.headerToPathMap, trim(raw))
    THEN MapGet(ix.headerToPathMap, trim(raw))
    ELSE IF includes(raw, ru_data) /\ includes(raw, ru_zaezd)
    THEN ScanIndex(ix.headerToPathMap, {s_date, ru_data})
    ELSE IF includes(raw, ru_telefon) \/ includes(raw, s_phone)
    THEN ScanIndex(ix.headerToPathMap, {s_phone, ru_telefon})
    ELSE IF includes(raw, ru_imya) /\ includes(raw, ru_klienta)
    THEN ScanIndex(ix.headerToPathMap, {s_first_name, ru_imya})
    ELSE IF includes(raw, ru_familiya) /\ includes(raw, ru_klienta)
    THEN ScanIndex(ix.headerToPathMap, {s_last_name, s_second_name, ru_familiya})
    ELSE NoPath

ResolveHeader(ix, header) ==
    ResolveKeys(ix, toLowerCase(normalizeHeaderName(header)), toLowerCase(header))

(***************************************************************************)
(* Conversions of the JavaScript library that transformValue calls.        *)
(***************************************************************************)
RECURSIVE NatToStr(_)
NatToStr(n) ==
    IF n < 10 THEN <<48 + n>> ELSE NatToStr(n \div 10) \o <<48 + (n % 10)>>

\* n in decimal, left-padded with zeros to width w.
RECURSIVE Pad(_, _)
Pad(n, w) ==
    IF Len(NatToStr(n)) >= w THEN NatToStr(n) ELSE <<48>> \o Pad(n, w - 1)

\* The three decimals of mil without trailing zeros.
FractionToStr(mil) ==
    IF mil % 100 = 0 THEN NatToStr(mil \div 100)
    ELSE IF mil % 10 = 0 THEN Pad(mil \div 10, 2)
    ELSE Pad(mil, 3)

\* String(number)
NumberToStr(v) ==
    IF v.nan THEN Str("NaN")
    ELSE IF v.mil = 0
         THEN IF v.int < 0 THEN Str("-") \o NatToStr(-v.int) ELSE NatToStr(v.int)
         ELSE IF v.int < 0
              THEN Str("-") \o NatToStr(-v.int - 1) \o Str(".") \o FractionToStr(1000 - v.mil)
              ELSE NatToStr(v.int) \o Str(".") \o FractionToStr(v.mil)

\* The longest prefix of s made of characters of set.
RECURSIVE TakeWhileIn(_, _)
TakeWhileIn(s, set) ==
    IF s # <<>> /\ Head(s) \in set THEN <<Head(s)>> \o TakeWhileIn(Tail(s), set) ELSE <<>>

DigitChars == 48..57

HexChars == DigitChars \cup (65..70) \cup (97..102)

HexValue(c) == IF c <= 57 THEN c - 48 ELSE IF c <= 70 THEN c - 55 ELSE c - 87

RECURSIVE DigitsValue(_, _, _)
DigitsValue(ds, base, acc) ==
    IF ds = <<>> THEN acc ELSE DigitsValue(Tail(ds), base, acc * base + HexValue(Head(ds)))

\* A leading sign and the rest.
SignOf(s) == IF s # <<>> /\ Head(s) = 45 THEN -1 ELSE 1

Unsigned(s) == IF s # <<>> /\ Head(s) \in {43, 45} THEN Tail(s) ELSE s

\* parseInt(s) without radix: leading white space, sign, 0x prefix, then
\* the longest run of digits; NaN when there is none.
parseInt(s) ==
    LET body == Unsigned(TrimStart(s))
        sign == SignOf(TrimStart(s))
        hex == Len(body) >= 2 /\ body[1] = 48 /\ body[2] \in {88, 120}
        ds == IF hex THEN TakeWhileIn(SubSeq(body, 3, Len(body)), HexChars)
              ELSE TakeWhileIn(body, DigitChars)
    IN  IF ds = <<>> THEN NaN ELSE Whole(sign * DigitsValue(ds, IF hex THEN 16 ELSE 10, 0))

\* sign * (whole + mil/1000) as a number value (int is the floor).
Signed(sign, whole, mil) ==
    IF sign = 1 \/ mil = 0 THEN Num(sign * whole, mil) ELSE Num(-whole - 1, 1000 - mil)

\* The digits after a decimal point at the head of rest, if any.
FractionDigits(rest) ==
    IF rest # <<>> /\ Head(rest) = ch_dot THEN TakeWhileIn(Tail(rest), DigitChars) ELSE <<>>

FloatOf(sign, whole, frac) ==
    IF whole = <<>> /\ frac = <<>> THEN NaN
    ELSE Signed(sign, DigitsValue(whole, 10, 0),
                DigitsValue(SubSeq(frac \o <<48, 48, 48>>, 1, 3), 10, 0))

UnsignedFloat(sign, body, whole) ==
    FloatOf(sign, whole, FractionDigits(SubSeq(body, Len(whole) + 1, Len(body))))

\* parseFloat(s) for decimal literals of at most three decimals, without
\* exponent: leading white space, sign, digits, an optional fraction.
parseFloat(s) ==
    UnsignedFloat(SignOf(TrimStart(s)), Unsigned(TrimStart(s)),
                  TakeWhileIn(Unsigned(TrimStart(s)), DigitChars))

(***************************************************************************)
(* Dates.  A time value is (days, ms): whole days since 1970-01-01 and     *)
(* milliseconds within the day.  Local time is UTC.                        *)
(***************************************************************************)
\* The largest time value of a Date, 8.64e15 ms, in days.
MaxDateDays == 100000000

\* TimeClip: a time value outside the range makes an invalid Date.
MakeDate(days, ms) ==
    IF days >= -MaxDateDays /\ (days < MaxDateDays \/ (days = MaxDateDays /\ ms = 0))
    THEN DateObj(days, ms)
    ELSE InvalidDate

\* Days since 1970-01-01 of a civil date (proleptic Gregorian calendar):
\* the year counted from March, split in 400-year eras.
DayOfEra(yoe, doy) == yoe * 365 + yoe \div 4 - yoe \div 100 + doy

DaysFromMarch(yy, mp, d) ==
    (yy \div 400) * 146097 + DayOfEra(yy % 400, (153 * mp + 2) \div 5 + d - 1) - 719468

DaysFromCivil(y, m, d) ==
    DaysFromMarch(IF m <= 2 THEN y - 1 ELSE y, IF m > 2 THEN m - 3 ELSE m + 9, d)

\* The civil date of a day number, by the same split.
CivilFromMonth(y, doy, mp) ==
    [year |-> y + (IF mp >= 10 THEN 1 ELSE 0),
     month |-> IF mp < 10 THEN mp + 3 ELSE mp - 9,
     day |-> doy - (153 * mp + 2) \div 5 + 1]

CivilFromDayOfYear(y, doy) == CivilFromMonth(y, doy, (5 * doy + 2) \div 153)

CivilFromYearOfEra(era, doe, yoe) ==
    CivilFromDayOfYear(yoe + era * 400, doe - (365 * yoe + yoe \div 4 - yoe \div 100))

CivilFromDayOfEra(era, doe) ==
    CivilFromYearOfEra(era, doe,
        (doe - doe \div 1460 + doe \div 36524 - doe \div 146096) \div 365)

CivilFromDays(days) ==
    CivilFromDayOfEra((days + 719468) \div 146097, (days + 719468) % 146097)

\* hh:mm:ss of a number of seconds within the day.
ClockToStr(secs) ==
    Pad(secs \div 3600, 2) \o Str(":") \o Pad((secs \div 60) % 60, 2)
        \o Str(":") \o Pad(secs % 60, 2)

YearToISO(year) ==
    IF year >= 0 /\ year <= 9999 THEN Pad(year, 4)
    ELSE IF year < 0 THEN Str("-") \o Pad(-year, 6)
    ELSE Str("+") \o Pad(year, 6)

FormatISO(c, ms) ==
    String(YearToISO(c.year) \o Str("-") \o Pad(c.month, 2) \o Str("-") \o Pad(c.day, 2)
           \o Str("T") \o ClockToStr(ms \div 1000) \o Str(".") \o Pad(ms % 1000, 3)
           \o Str("Z"))

\* Date.prototype.toISOString: RangeError on an invalid Date.
toISOString(d) ==
    IF ~d.valid THEN Throw("RangeError") ELSE FormatISO(CivilFromDays(d.days), d.ms)

\* new Date(year, monthIndex, day): years 0..99 mean 1900..1999, a month
\* or day out of range carries over.
DateFromParts(year, monthIndex, day) ==
    MakeDate(DaysFromCivil((IF year >= 0 /\ year <= 99 THEN 1900 + year ELSE year)
                               + monthIndex \div 12,
                           (monthIndex % 12) + 1, 1) + day - 1, 0)

AllDigits(s) == s # <<>> /\ \A i \in 1..Len(s) : IsDigit(s[i])

\* The date of year y, month m, day d when m and d are in range.
DateOfYMD(y, m, d) ==
    IF m >= 1 /\ m <= 12 /\ d >= 1 /\ d <= 31
    THEN MakeDate(DaysFromCivil(y, m, 1) + d - 1, 0) ELSE InvalidDate

DateParseParts(s, iso, dotted) ==
    IF Len(iso) = 3 /\ Len(iso[1]) = 4 /\ Len(iso[2]) = 2 /\ Len(iso[3]) = 2
       /\ \A i \in 1..3 : AllDigits(iso[i])
    THEN DateOfYMD(DigitsValue(iso[1], 10, 0), DigitsValue(iso[2], 10, 0),
                   DigitsValue(iso[3], 10, 0))
    ELSE IF Len(dotted) = 3 /\ Len(dotted[3]) = 4 /\ Len(dotted[1]) \in {1, 2}
            /\ Len(dotted[2]) \in {1, 2} /\ \A i \in 1..3 : AllDigits(dotted[i])
    THEN DateOfYMD(DigitsValue(dotted[3], 10, 0), DigitsValue(dotted[1], 10, 0),
                   DigitsValue(dotted[2], 10, 0))
    ELSE IF s = Str("0") THEN MakeDate(DaysFromCivil(2000, 1, 1), 0)
    ELSE IF s = Str("1") THEN MakeDate(DaysFromCivil(2001, 1, 1), 0)
    ELSE InvalidDate

\* new Date(string) for the strings the model feeds it: the ISO form
\* YYYY-MM-DD (UTC midnight), and of the forms left to the engine the ones
\* V8 reads as a date: M.D.YYYY (month first) and the numbers 0 and 1 (the
\* years 2000 and 2001); a day up to 31 carries over into the next month.
\* Any other string gives an invalid Date.
DateParse(s) == DateParseParts(s, split(s, 45), split(s, ch_dot))

DayNames == << "Sun", "Mon", "Tue", "Wed", "Thu", "Fri", "Sat" >>

MonthNames == << "Jan", "Feb", "Mar", "Apr", "May", "Jun",
                 "Jul", "Aug", "Sep", "Oct", "Nov", "Dec" >>

FormatDate(days, c, ms) ==
    Str(DayNames[((days + 4) % 7) + 1]) \o Str(" ") \o Str(MonthNames[c.month])
        \o Str(" ") \o Pad(c.day, 2) \o Str(" ")
        \o (IF c.year < 0 THEN Str("-") \o Pad(-c.year, 6) ELSE Pad(c.year, 4))
        \o Str(" ") \o ClockToStr(ms \div 1000)
        \o Str(" GMT+0000 (Coordinated Universal Time)")

\* String(date), as V8 prints it in the UTC time zone.
DateToStr(d) ==
    IF ~d.valid THEN Str("Invalid Date")
    ELSE FormatDate(d.days, CivilFromDays(d.days), d.ms)

\* String(value)
ToStr(v) ==
    CASE v.t = "string" -> v.s
      [] v.t = "number" -> NumberToStr(v)
      [] v.t = "boolean" -> IF v.b THEN Str("true") ELSE Str("false")
      [] v.t = "date" -> DateToStr(v)
      [] v.t = "null" -> Str("null")
      [] v.t = "undefined" -> Str("undefined")
      [] v.t = "object" -> Str("[object Object]")
      [] v.t = "array" -> <<>>

NumberLiteralParts(whole, rest) ==
    /\ whole # <<>>
    /\ (Len(whole) = 1 \/ Head(whole) # 48)
    /\ \/ rest = <<>>
       \/ Head(rest) = ch_dot /\ AllDigits(Tail(rest))

UnsignedLiteral(body) ==
    NumberLiteralParts(TakeWhileIn(body, DigitChars),
                       SubSeq(body, Len(TakeWhileIn(body, DigitChars)) + 1, Len(body)))

IsNumberLiteral(s) == UnsignedLiteral(IF s # <<>> /\ Head(s) = 45 THEN Tail(s) ELSE s)

JSONParseTrimmed(s) ==
    IF s = Str("null") THEN Null
    ELSE IF s = Str("true") THEN Bool(TRUE)
    ELSE IF s = Str("false") THEN Bool(FALSE)
    ELSE IF s = Str("{}") THEN EmptyObj
    ELSE IF s = Str("[]") THEN Arr(<<>>)
    ELSE IF IsNumberLiteral(s) THEN parseFloat(s)
    ELSE IF Len(s) >= 2 /\ s[1] = 34 /\ s[Len(s)] = 34
            /\ \A i \in 2..(Len(s) - 1) : s[i] \notin {34, 92} /\ s[i] >= 32
    THEN String(SubSeq(s, 2, Len(s) - 1))
    ELSE Throw("SyntaxError")

\* JSON.parse for the texts the model feeds it: the literals null, true and
\* false, numbers without exponent, strings without escapes, and the empty
\* object and array.  Any other text is a SyntaxError.
JSONParse(text) == JSONParseTrimmed(trim(text))

(***************************************************************************)
(* transformValue, lines 269-430.                                          *)
(***************************************************************************)
\* Line 330: match(/^(\d{1,2})\.(\d{1,2})\.(\d{4})$/)
DateMatchParts(parts) ==
    IF Len(parts) = 3 /\ Len(parts[1]) \in {1, 2} /\ Len(parts[2]) \in {1, 2}
       /\ Len(parts[3]) = 4 /\ \A i \in 1..3 : AllDigits(parts[i])
    THEN parts ELSE <<>>

DateMatch(s) == DateMatchParts(split(s, ch_dot))

\* Lines 312-316: Excel date serial number to ISO string.
SerialToISO(value) ==
    toISOString(MakeDate(value.int - 25569, value.mil * 86400))

\* Lines 336-338: the ISO string of a valid parsed date.
ISOOrNull(parsedDate) ==
    IF parsedDate.valid THEN toISOString(parsedDate) ELSE Null

\* Lines 319-341: the string is parsed as a date, then as DD.MM.YYYY.
ParseDateString(dateVal, dateMatch) ==
    IF dateVal.valid THEN toISOString(dateVal)
    ELSE IF dateMatch # <<>>
    THEN ISOOrNull(DateFromParts(parseInt(dateMatch[3]).int,
                                 parseInt(dateMatch[2]).int - 1,
                                 parseInt(dateMatch[1]).int))
    ELSE Null

\* Lines 309-341 (and their copies 345-377, 381-413); str is String(value).
TransformDate(value, str) ==
    IF value.t = "date" THEN toISOString(value)
    ELSE IF value.t = "number" /\ ~value.nan /\ (value.int > 1 \/ (value.int = 1 /\ value.mil > 0))
    THEN SerialToISO(value)
    ELSE ParseDateString(DateParse(str), DateMatch(str))

TruthyTokens == {Str("true"), Str("1"), ru_da, Str("yes")}

\* Lines 287, 293, 299: NaN becomes null.
NullIfNaN(n) == IF n.nan THEN Null ELSE n

\* Lines 419-423: the parsed text, or the text itself when parsing throws.
ParsedOr(parsed, str) == IF IsThrow(parsed) THEN String(str) ELSE parsed

\* Lines 279-429: the switch over the field type; str is String(value).
TransformTyped(value, str, fieldType) ==
    CASE fieldType \in {"string", "text"} ->
            IF value.t = "string" THEN value ELSE String(str)
      [] fieldType = "integer" ->
            IF value.t = "number"
            THEN (IF value.nan THEN NaN ELSE Whole(value.int))
            ELSE NullIfNaN(parseInt(str))
      [] fieldType \in {"float", "decimal"} ->
            IF value.t = "number" THEN value ELSE NullIfNaN(parseFloat(str))
      [] fieldType = "boolean" ->
            IF value.t = "boolean" THEN value ELSE Bool(toLowerCase(str) \in TruthyTokens)
      [] fieldType \in {"date", "dateTime", "timestamp"} -> TransformDate(value, str)
      [] fieldType = "json" ->
            IF TypeOf(value) = "object" THEN value ELSE ParsedOr(JSONParse(str), str)
      [] OTHER ->
            IF value.t = "string" THEN value ELSE String(str)

\* Lines 275-277 on: the value with a string trimmed.
TransformTrimmed(value, fieldType) == TransformTyped(value, ToStr(value), fieldType)

transformValue(raw, fieldType) ==
    IF raw.t \in {"null", "undefined"} \/ raw = String(<<>>) THEN Null
    ELSE TransformTrimmed(IF raw.t = "string" THEN String(trim(raw.s)) ELSE raw, fieldType)

(***************************************************************************)
(* normalizePhoneNumber, lines 432-447.                                    *)
(***************************************************************************)
RECURSIVE KeepDigits(_)
KeepDigits(s) ==
    IF s = <<>> THEN <<>>
    ELSE IF IsDigit(Head(s)) THEN <<Head(s)>> \o KeepDigits(Tail(s))
    ELSE KeepDigits(Tail(s))

normalizePhoneNumber(phone) ==
    LET cleaned == KeepDigits(phone)
    IN  IF StartsWith(cleaned, Str("8")) /\ Len(cleaned) = 11
        THEN Str("7") \o SubSeq(cleaned, 2, Len(cleaned))
        ELSE cleaned

(***************************************************************************)
(* setByPath, lines 449-499.  The record is updated in place in the code;  *)
(* here the updated record is returned, or Throw when a step throws.       *)
(* (Rows come from sheet_to_json without cellDates, so no Date object      *)
(* reaches the writer.)                                                    *)
(***************************************************************************)
\* Lines 476-480 and 491-495: current[key] becomes what the walk below it
\* made of it; creating a missing current[key] throws on a primitive.
StoreWalked(current, key, child, walked) ==
    IF child = Undefined /\ IsThrow(SetProp(current, key, EmptyObj))
    THEN Throw("TypeError")
    ELSE IF IsThrow(walked) THEN walked
    ELSE SetProp(current, key, walked)

\* Lines 473-483 and 488-498: walk the keys, creating the objects that are
\* missing, and assign value under the last key.
RECURSIVE WalkSet(_, _, _)
WalkSet(current, keys, value) ==
    IF current.t \in {"null", "undefined"} THEN Throw("TypeError")
    ELSE IF Len(keys) = 1 THEN SetProp(current, keys[1], value)
    ELSE StoreWalked(current, Head(keys), GetProp(current, Head(keys)),
            WalkSet(IF GetProp(current, Head(keys)) = Undefined
                    THEN EmptyObj ELSE GetProp(current, Head(keys)),
                    Tail(keys), value))

RelationTriple == Obj((s_create :> Arr(<<EmptyObj>>)) @@ (s_update :> Arr(<<>>))
                      @@ (s_delete :> Arr(<<>>)))

\* Lines 464-465: the update or delete array is added when it is missing.
WithArray(rel, key) ==
    IF IsThrow(rel) \/ Truthy(GetProp(rel, key)) THEN rel ELSE SetProp(rel, key, Arr(<<>>))

\* Lines 463-465: give a value without a create array a fresh one, and the
\* update and delete arrays it lacks.
RepairCreate(rel) ==
    WithArray(WithArray(SetProp(rel, s_create, Arr(<<EmptyObj>>)), s_update), s_delete)

\* Lines 466-468: create.push({}) on an empty create array.
PushEmpty(rel, create) == SetProp(rel, s_create, [create EXCEPT !.a = <<EmptyObj>>])

\* Lines 462-468 with the tests of lines 462 and 466 left out: every write
\* starts from a fresh create array.
ResetCreate(rel, create) == RepairCreate(rel)

\* Lines 462-468: the cases of a value that is already there.
EnsureCreate(rel, create) ==
    IF ~Truthy(create) \/ create.t # "array" THEN RepairCreate(rel)
    ELSE IF Len(create.a) = 0 THEN PushEmpty(rel, create)
    ELSE rel

\* Lines 460-468: the value of record[relationField] before the write.
EnsureRelation(rel) ==
    IF rel = Undefined THEN RelationTriple
    ELSE IF rel.t = "null" THEN Throw("TypeError")
    ELSE EnsureCreate(rel, GetProp(rel, s_create))

\* Lines 471-483: the first element of create after the write.
StoreElement(obj, relationField, rel, create, element) ==
    IF IsThrow(element) THEN element
    ELSE SetProp(obj, relationField, SetProp(rel, s_create, [create EXCEPT !.a[1] = element]))

\* Lines 470-484.
WriteRelation(obj, keys, rel, value) ==
    IF IsThrow(rel) THEN rel
    ELSE StoreElement(obj, keys[1], rel, GetProp(rel, s_create),
            WalkSet(GetProp(rel, s_create).a[1], SubSeq(keys, 3, Len(keys)), value))

\* Lines 454-498 on the split path.
SetKeys(obj, path, keys, value) ==
    IF includes(path, s_create_prefix)
    THEN IF keys[1] = <<>> \/ keys[2] # s_create THEN obj
         ELSE WriteRelation(obj, keys, EnsureRelation(GetProp(obj, keys[1])), value)
    ELSE WalkSet(obj, keys, value)

setByPath(obj, path, value) == SetKeys(obj, path, split(path, ch_dot), value)

(***************************************************************************)
(* The body of the loop over the headers of a row, lines 510-595.          *)
(***************************************************************************)
\* Line 576: the path or the header names a phone field.
IsPhone(path, lowerHeader) ==
    \/ includes(toLowerCase(path), s_phone)
    \/ includes(toLowerCase(path), ru_telefon)
    \/ includes(lowerHeader, ru_telefon)
    \/ includes(lowerHeader, s_phone)

\* Lines 576-580: phone numbers are normalised.
PhoneRule(path, lowerHeader, value) ==
    IF ~IsThrow(value) /\ IsPhone(path, lowerHeader) /\ Truthy(value) /\ value.t = "string"
    THEN String(normalizePhoneNumber(value.s))
    ELSE value

\* Lines 566-582: the value written for a header that resolved to path.
MappedValue(ix, path, header, raw) ==
    PhoneRule(path, toLowerCase(normalizeHeaderName(header)),
        IF MapHas(ix.fieldTypesMap, path)
        THEN transformValue(raw, MapGet(ix.fieldTypesMap, path).type)
        ELSE raw)

\* Lines 586-590 with the trim of lines 588-590 left out.
UnmappedValueVerbatim(raw) == raw

\* Lines 586-590: the value stored for a header that resolved to nothing.
UnmappedValue(raw) ==
    IF raw.t = "string" THEN String(trim(raw.s)) ELSE raw

\* Line 582: the value goes into the record, unless computing it threw.
WriteValue(record, path, value) ==
    IF IsThrow(value) THEN value ELSE setByPath(record, path, value)

\* Lines 565-594 for the path the header resolved to.
WriteResolved(ix, record, header, raw, path) ==
    IF path # NoPath
    THEN WriteValue(record, path, MappedValue(ix, path, header, raw))
    ELSE SetProp(record, header, UnmappedValue(raw))

\* Lines 510-595: the record after one header, or Throw.
WriteHeader(ix, record, header, raw) ==
    WriteResolved(ix, record, header, raw, ResolveHeader(ix, header))

(***************************************************************************)
(* Rows of the sheet: each a sequence of cells (header, raw value) in the  *)
(* order of the columns.                                                   *)
(***************************************************************************)
Cell(header, value) == [header |-> header, value |-> value]

MaxRows == 2

\* The header "Telefon klienta" in Cyrillic letters, with a capital T.
h_telefon_klienta ==
    <<1058, 1077, 1083, 1077, 1092, 1086, 1085, 32,
      1082, 1083, 1080, 1077, 1085, 1090, 1072>>

RowPool ==
    { << Cell(Str("Phone"), String(Str("8 (999) 123-45-67"))),
         Cell(Str("Unknown Col"), String(Str(" x "))),
         Cell(Str("visit"), Whole(45292)) >>,
      << Cell(Str("cars"), String(Str("y"))), Cell(Str("model"), String(Str("Lada"))) >>,
      << Cell(Str("Model"), String(Str("Niva"))), Cell(Str("cars"), String(Str("y"))) >>,
      << Cell(Str("car"), String(Str("Lada"))), Cell(Str("sold"), Whole(45292)) >>,
      << Cell(Str("car"), String(Str("Lada"))), Cell(Str("note"), String(Str("n"))),
         Cell(Str("sold"), Whole(200000000)) >>,
      << Cell(Str("b"), Whole(5)), Cell(Str("label"), String(Str("z"))) >>,
      << Cell(Str("x"), String(Str("deep"))), Cell(Str(" Name "), String(Str("Ann"))) >>,
      << Cell(Str("Full Name"), String(Str("Bob"))),
         Cell(h_telefon_klienta, String(Str("+7 999 123-45-67"))) >> }

RECURSIVE SeqsUpTo(_, _)
SeqsUpTo(S, n) ==
    IF n = 0 THEN {<<>>}
    ELSE LET shorter == SeqsUpTo(S, n - 1)
         IN  shorter \cup {Append(q, e) : q \in shorter, e \in S}

(***************************************************************************)
(* The row loop, lines 507-598, and the end of the handler.                *)
(***************************************************************************)
CurrentCell == jsonData[rowIdx][keyIdx]

InRow == pc = "rows" /\ rowIdx <= Len(jsonData)

indexVars == << schema, jsonData, stack, heap, idx, readAllCalls, skipped, call, result,
               requestVars >>

\* A header that resolves to a path: lines 565-583.
MapHeader ==
    /\ InRow
    /\ keyIdx <= Len(jsonData[rowIdx])
    /\ ResolveHeader(idx, CurrentCell.header) # NoPath
    /\ LET written == WriteHeader(idx, newRow, CurrentCell.header, CurrentCell.value)
       IN  /\ ~IsThrow(written)
           /\ newRow' = written
    /\ keyIdx' = keyIdx + 1
    /\ UNCHANGED << indexVars, pc, rowIdx, transformedData, imported, raised, thrown >>

\* A header that resolves to nothing: lines 584-594.
PassThroughHeader ==
    /\ InRow
    /\ keyIdx <= Len(jsonData[rowIdx])
    /\ ResolveHeader(idx, CurrentCell.header) = NoPath
    /\ newRow' = WriteHeader(idx, newRow, CurrentCell.header, CurrentCell.value)
    /\ keyIdx' = keyIdx + 1
    /\ UNCHANGED << indexVars, pc, rowIdx, transformedData, imported, raised, thrown >>

\* transformValue or setByPath throws: control leaves the loops for the
\* catch of line 606, which hands the error to next (line 617).
HeaderThrows ==
    /\ InRow
    /\ keyIdx <= Len(jsonData[rowIdx])
    /\ LET written == WriteHeader(idx, newRow, CurrentCell.header, CurrentCell.value)
       IN  /\ IsThrow(written)
           /\ raised' = written.error
           /\ thrown' = Handed(written.error)
    /\ pc' = "failed"
    /\ UNCHANGED << indexVars, rowIdx, keyIdx, newRow, transformedData, imported >>

\* Line 597 with one record object kept for all the rows.
PushRowKeepingRecord ==
    /\ InRow
    /\ keyIdx > Len(jsonData[rowIdx])
    /\ transformedData' = Append(transformedData, newRow)
    /\ rowIdx' = rowIdx + 1
    /\ keyIdx' = 1
    /\ UNCHANGED << indexVars, pc, newRow, imported, raised, thrown >>

\* Line 597: the record of the row is pushed; line 508 starts the next one.
PushRow ==
    /\ InRow
    /\ keyIdx > Len(jsonData[rowIdx])
    /\ transformedData' = Append(transformedData, newRow)
    /\ rowIdx' = rowIdx + 1
    /\ keyIdx' = 1
    /\ newRow' = EmptyObj
    /\ UNCHANGED << indexVars, pc, imported, raised, thrown >>

\* Lines 600-602 and 620: the records go to service.import, the request
\* is answered with status 200.
Import ==
    /\ pc = "rows"
    /\ rowIdx > Len(jsonData)
    /\ imported' = Arr(transformedData)
    /\ pc' = "responded"
    /\ UNCHANGED << indexVars, rowIdx, keyIdx, newRow, transformedData, raised, thrown >>

\* Line 602: service.import rejects.
ImportFails ==
    /\ pc = "rows"
    /\ rowIdx > Len(jsonData)
    /\ imported' = Arr(transformedData)
    /\ \E e \in ServiceErrors :
            /\ raised' = e
            /\ thrown' = Handed(e)
    /\ pc' = "failed"
    /\ UNCHANGED << indexVars, rowIdx, keyIdx, newRow, transformedData >>

(***************************************************************************)
(* Specification of the handler: from sheet_to_json (line 161) on.         *)
(***************************************************************************)
NoCall == [fn |-> "none"]

Init ==
    /\ schema \in Schemas
    /\ jsonData \in SeqsUpTo(RowPool, MaxRows)
    /\ pc = "discover"
    /\ heap = << {} >>
    /\ stack = << [collection |-> schema.root, pathPrefix |-> <<>>, visited |-> 1,
                   at |-> "enter", fields |-> <<>>, i |-> 1] >>
    /\ idx = EmptyIndex
    /\ readAllCalls = <<>>
    /\ skipped = <<>>
    /\ rowIdx = 1
    /\ keyIdx = 1
    /\ newRow = EmptyObj
    /\ transformedData = <<>>
    /\ imported = NotImported
    /\ raised = NoError
    /\ thrown = NoError
    /\ call = NoCall
    /\ result = Undefined
    /\ NoRequest

Next ==
    \/ DiscoverSkip
    \/ DiscoverEnter
    \/ ReadAllFails
    \/ DiscoverField
    \/ DiscoverReturn
    \/ MapHeader
    \/ PassThroughHeader
    \/ HeaderThrows
    \/ PushRow
    \/ Import
    \/ ImportFails

Spec == Init /\ [][Next]_vars

\* One step of the index building (await discoverFields(...), line 247).
Discover == DiscoverSkip \/ DiscoverEnter \/ DiscoverField \/ DiscoverReturn

\* The handler is one async function: the event loop resumes it after each
\* await, and between awaits it runs to the next one.
FairSpec == Spec /\ WF_vars(Discover)

(***************************************************************************)
(* transformValue and setByPath on their own: one call on arguments drawn  *)
(* from the sets below, while the handler is idle.                         *)
(***************************************************************************)
Pending == [t |-> "pending"]

IdleHandler ==
    /\ schema = SchemaFlat
    /\ jsonData = <<>>
    /\ pc = "idle"
    /\ heap = <<>>
    /\ stack = <<>>
    /\ idx = EmptyIndex
    /\ readAllCalls = <<>>
    /\ skipped = <<>>
    /\ rowIdx = 1
    /\ keyIdx = 1
    /\ newRow = EmptyObj
    /\ transformedData = <<>>
    /\ imported = NotImported
    /\ raised = NoError
    /\ thrown = NoError

handlerVars == << schema, jsonData, pc, stack, heap, idx, readAllCalls, skipped, rowIdx,
                  keyIdx, newRow, transformedData, imported, raised, thrown >>

FieldTypes == {"string", "text", "integer", "float", "decimal", "boolean",
               "date", "dateTime", "timestamp", "json", "uuid"}

CoerceValues ==
    { Null, Undefined, String(<<>>), String(Str(" 42 ")), String(Str("abc")),
      String(Str("2024-03-05")), String(Str("25.03.2024")), String(Str("true")),
      String(Str("{}")), Whole(0), Whole(1), Whole(45292), Num(2, 500),
      Whole(200000000), NaN, Bool(TRUE), Bool(FALSE),
      DateObj(19723, 0), InvalidDate }

InitCoerce ==
    /\ IdleHandler
    /\ NoRequest
    /\ call \in {[fn |-> "transformValue", value |-> v, fieldType |-> ty] :
                    v \in CoerceValues, ty \in FieldTypes}
    /\ result = Pending

ApplyTransformValue ==
    /\ call.fn = "transformValue"
    /\ result = Pending
    /\ result' = transformValue(call.value, call.fieldType)
    /\ UNCHANGED << handlerVars, call, requestVars >>

SpecCoerce == InitCoerce /\ [][ApplyTransformValue]_vars

s_car == Str("car")

Triple(create, update, delete) ==
    Obj((s_create :> create) @@ (s_update :> update) @@ (s_delete :> delete))

\* What record.car holds before the write.
PriorValues ==
    { Undefined,
      RelationTriple,
      Triple(Arr(<< Obj(Str("owner") :> Obj(Str("age") :> Whole(3))) >>), Arr(<<>>), Arr(<<>>)),
      Triple(Arr(<<>>), Arr(<<>>), Arr(<<>>)),
      Triple(Arr(<< EmptyObj, EmptyObj >>), Arr(<<>>), Arr(<<>>)),
      Obj(s_create :> Arr(<<>>)),
      Obj(s_create :> String(Str("x"))),
      EmptyObj,
      Obj(Str("name") :> String(Str("old"))),
      String(Str("y")),
      Null }

PriorRecords ==
    { IF v = Undefined THEN EmptyObj ELSE Obj(s_car :> v) : v \in PriorValues }

WritePaths ==
    { Str("car.create.owner.name"), Str("car.create.name"), Str("car.name"),
      Str("name"), Str("owner.car.create.name") }

WriteValues == { String(Str("Alex")), Whole(7), Null }

InitWrite ==
    /\ IdleHandler
    /\ NoRequest
    /\ call \in {[fn |-> "setByPath", obj |-> o, path |-> p, value |-> v] :
                    o \in PriorRecords, p \in WritePaths, v \in WriteValues}
    /\ result = Pending

ApplySetByPath ==
    /\ call.fn = "setByPath"
    /\ result = Pending
    /\ result' = setByPath(call.obj, call.path, call.value)
    /\ UNCHANGED << handlerVars, call, requestVars >>

SpecWrite == InitWrite /\ [][ApplySetByPath]_vars

(***************************************************************************)
(* Two calls of setByPath on the record of one row, lines 567 and 582 for  *)
(* two headers that resolve to paths under the same one-to-many field.     *)
(***************************************************************************)
\* The record of the row before the first of the two writes.
RowRecords ==
    { EmptyObj,
      Obj(Str("name") :> String(Str("old"))),
      Obj(s_car :> Triple(Arr(<< Obj(Str("model") :> String(Str("Niva"))) >>),
                          Arr(<<>>), Arr(<<>>))) }

SubPaths == { Str("name"), Str("model"), Str("owner"), Str("owner.name"), Str("owner.age") }

MergeValues == { String(Str("Alex")), Whole(7) }

CreatePath(sub) == Str("car.create.") \o sub

InitMerge ==
    /\ IdleHandler
    /\ NoRequest
    /\ call \in {[fn |-> "setByPath twice", obj |-> o, a |-> p[1], x |-> v[1],
                  b |-> p[2], y |-> v[2]] :
                    o \in RowRecords,
                    p \in {q \in SubPaths \X SubPaths : q[1] # q[2]},
                    v \in MergeValues \X MergeValues}
    /\ result = Pending

\* The write of the first header.
WriteFirst ==
    /\ call.fn = "setByPath twice"
    /\ result = Pending
    /\ result' = [t |-> "first", record |-> setByPath(call.obj, CreatePath(call.a), call.x)]
    /\ UNCHANGED << handlerVars, call, requestVars >>

\* The write of the second header into the record the first one left; an
\* exception of the first write ends the row (line 606).
WriteSecond ==
    /\ call.fn = "setByPath twice"
    /\ result.t = "first"
    /\ result' = IF IsThrow(result.record) THEN result.record
                 ELSE setByPath(result.record, CreatePath(call.b), call.y)
    /\ UNCHANGED << handlerVars, call, requestVars >>

SpecMerge == InitMerge /\ [][WriteFirst \/ WriteSecond]_vars

(***************************************************************************)
(* normalizeHeaderName on its own: one call on a header, kept together     *)
(* with a second header that differs from it in letter case or in white    *)
(* space at its ends only.                                                 *)
(***************************************************************************)
MaxHeaderLen == 3

\* a, B, space, line feed, double quote, underscore.
HeaderAlphabet == {97, 66, 32, 10, 34, 95}

RECURSIVE StringsUpTo(_, _)
StringsUpTo(alphabet, n) ==
    IF n = 0 THEN {<<>>}
    ELSE StringsUpTo(alphabet, n - 1)
            \cup {<<c>> \o t : c \in alphabet, t \in {u \in StringsUpTo(alphabet, n - 1) : Len(u) = n - 1}}

\* The substitution phrases, as they are and written with spaces, alone and
\* between other text.
PhraseHeaders ==
    LET phrases == {ru_phone_phrase, ru_date_phrase, ru_car_model_phrase, ru_first_name_phrase,
                    ru_last_name_phrase, ru_consultant_phrase}
        spaced == {[i \in 1..Len(ph) |-> IF ph[i] = 95 THEN 32 ELSE ph[i]] : ph \in phrases}
    IN  phrases \cup spaced
            \cup {<<34>> \o Str("a ") \o ph \o Str("_B") : ph \in spaced}
            \cup {ph \o Str("_") \o ph : ph \in {ru_first_name_phrase, ru_last_name_phrase}}

NormalizeHeaders == StringsUpTo(HeaderAlphabet, MaxHeaderLen) \cup PhraseHeaders

UpperChar(c) ==
    IF (c >= 97 /\ c <= 122) \/ (c >= 1072 /\ c <= 1103) THEN c - 32 ELSE c

\* Headers that differ from the header in letter case or in the white
\* space at their ends only.
SameButCaseAndEnds(header) ==
    { [i \in 1..Len(header) |-> UpperChar(header[i])],
      [i \in 1..Len(header) |-> LowerChar(header[i])],
      Str(" ") \o header,
      header \o Str(" "),
      <<10, 9>> \o header \o <<13, 32>> }

InitNormalize ==
    /\ IdleHandler
    /\ NoRequest
    /\ call \in UNION {{[fn |-> "normalizeHeaderName", header |-> h, other |-> o] :
                            o \in SameButCaseAndEnds(h)} : h \in NormalizeHeaders}
    /\ result = Pending

ApplyNormalize ==
    /\ call.fn = "normalizeHeaderName"
    /\ result = Pending
    /\ result' = String(normalizeHeaderName(call.header))
    /\ UNCHANGED << handlerVars, call, requestVars >>

SpecNormalize == InitNormalize /\ [][ApplyNormalize]_vars

(***************************************************************************)
(* One request as a whole, lines 132-625: busboy emits 'file' once for     *)
(* every file part of the body, each emission starts a run of the async    *)
(* callback of line 134, and the runs and the 'error' callback of line 623 *)
(* interleave at their awaits.  What a run computes is left to Spec.       *)
(***************************************************************************)
MaxParts == 2

\* Lines 136-139 and 603: a part is read and transformed as a spreadsheet,
\* or its stream is handed to service.import as it is.
MimeTypes == {"spreadsheet", "other"}

\* The callbacks of the request: the k-th run of the 'file' callback and
\* the 'error' callback.
FileRun(k) == << "file", k >>

OnError == << "error" >>

Answer(by, action) == [by |-> by, action |-> action]

InitRequest ==
    /\ IdleHandler
    /\ call = NoCall
    /\ result = Undefined
    /\ fileParts \in SeqsUpTo(MimeTypes, MaxParts)
    /\ busboy = "parsing"
    /\ handlers = <<>>
    /\ answers = <<>>

\* Line 134: the next file part is reached, which is once the stream of
\* the part before it has been read to its end.
EmitFile ==
    /\ busboy = "parsing"
    /\ Len(handlers) < Len(fileParts)
    /\ \A k \in 1..Len(handlers) : handlers[k] # "reading"
    /\ handlers' = Append(handlers, "reading")
    /\ UNCHANGED << handlerVars, call, result, fileParts, busboy, answers >>

\* Lines 141-143, or the stream read by service.import at line 604: the
\* stream of the part ends and the run goes on to its next await.
ReadStream(k) ==
    /\ handlers[k] = "reading"
    /\ busboy = "parsing"
    /\ handlers' = [handlers EXCEPT ![k] = "working"]
    /\ UNCHANGED << handlerVars, call, result, fileParts, busboy, answers >>

\* Line 620: the run reaches its end.
Respond(k) ==
    /\ handlers[k] = "working"
    /\ handlers' = [handlers EXCEPT ![k] = "returned"]
    /\ answers' = Append(answers, Answer(FileRun(k), "res.status(200).end()"))
    /\ UNCHANGED << handlerVars, call, result, fileParts, busboy >>

\* Lines 606-617: something thrown in the run is caught and handed to
\* next.
HandlerFails(k) ==
    /\ handlers[k] = "working"
    /\ handlers' = [handlers EXCEPT ![k] = "returned"]
    /\ answers' = Append(answers, Answer(FileRun(k), "next(err)"))
    /\ UNCHANGED << handlerVars, call, result, fileParts, busboy >>

\* Line 623: the parser meets a malformed or truncated body.
ParserError ==
    /\ busboy = "parsing"
    /\ busboy' = "failed"
    /\ answers' = Append(answers, Answer(OnError, "next(err)"))
    /\ UNCHANGED << handlerVars, call, result, fileParts, handlers >>

\* The body ends after its last part.
ParserClose ==
    /\ busboy = "parsing"
    /\ Len(handlers) = Len(fileParts)
    /\ \A k \in 1..Len(handlers) : handlers[k] # "reading"
    /\ busboy' = "closed"
    /\ UNCHANGED << handlerVars, call, result, fileParts, handlers, answers >>

NextRequest ==
    \/ EmitFile
    \/ \E k \in 1..Len(handlers) : ReadStream(k)
    \/ \E k \in 1..Len(handlers) : Respond(k)
    \/ \E k \in 1..Len(handlers) : HandlerFails(k)
    \/ ParserError
    \/ ParserClose

SpecRequest == InitRequest /\ [][NextRequest]_vars

(***************************************************************************)
(* Properties                                                              *)
(***************************************************************************)
Finished == pc \in {"responded", "failed"}

\* discoverFields has returned (line 246).
Indexed == pc # "discover" /\ stack = <<>>

\* Lines 508-595: the record the header loop builds from one row.
RECURSIVE BuildRecord(_, _, _)
BuildRecord(ix, record, cells) ==
    IF cells = <<>> \/ IsThrow(record) THEN record
    ELSE BuildRecord(ix, WriteHeader(ix, record, Head(cells).header, Head(cells).value),
                     Tail(cells))

\* C1: when the handler has finished and neither the schema source nor the
\* sink has failed, service.import has received exactly one record per input
\* row, the i-th record being the one built from the i-th row.
C1_OneRecordPerRowInOrder ==
    (Finished /\ raised \notin ServiceErrors) =>
        /\ imported.t = "array"
        /\ Len(imported.a) = Len(jsonData)
        /\ \A i \in 1..Len(jsonData) :
                imported.a[i] = BuildRecord(idx, EmptyObj, jsonData[i])

\* C2: row processing never raises an exception, whatever the schema and
\* the rows: the only errors caught are those of the schema source and of
\* the sink.
C2_NoExceptionInRows == raised \in ServiceErrors \cup {NoError}

\* C3: transformValue never throws: every call returns a value.
C3_TransformValueNeverThrows == result # Pending => ~IsThrow(result)

Values(m) == {m.vals[k] : k \in DOMAIN m.vals}

LastSegment(path) == split(path, ch_dot)[Len(split(path, ch_dot))]

\* The names, in lower case, of the fields of the collections that index
\* building has read.
ReadCollections == {readAllCalls[i] : i \in 1..Len(readAllCalls)}

FieldsOf(c) == {schema.fields[c][i] : i \in 1..Len(schema.fields[c])}

DirectNames ==
    UNION {{toLowerCase(f.field) : f \in FieldsOf(c)} : c \in ReadCollections}

\* C4: after index building, a label that is the direct name of a field
\* that was reached maps to the path of a field of that name, never to the
\* path of a field that has the label as a translation only.
C4_DirectNameWins ==
    Indexed =>
        \A k \in DirectNames :
            /\ MapHas(idx.headerToPathMap, k)
            /\ toLowerCase(LastSegment(MapGet(idx.headerToPathMap, k))) = k

\* A translation was met before the field of that name (name, zip) and
\* after it (phone, id), and index building is over.
C4_Witness ==
    /\ Indexed
    /\ \/ /\ schema = SchemaFlat
          /\ MapGet(idx.headerToPathMap, Str("name")) = Str("name")
          /\ MapGet(idx.headerToPathMap, Str("phone")) = Str("phone")
          /\ MapGet(idx.headerToPathMap, Str("cell")) = Str("mobile")
       \/ /\ schema = SchemaCycle
          /\ MapGet(idx.headerToPathMap, Str("zip")) = Str("zip")
          /\ MapGet(idx.headerToPathMap, Str("id")) = Str("id")

NumCollections == Cardinality(Collections(schema))

Expanding == {j \in 1..Len(stack) : stack[j].at = "loop"}

C5_DepthBounded ==
    /\ Cardinality(Expanding) <= NumCollections
    /\ Len(stack) <= NumCollections + 1

\* The field has a type entry under path and a label entry that leads to a
\* field of its name.
FieldIndexed(f, path) ==
    /\ MapHas(idx.fieldTypesMap, path)
    /\ MapHas(idx.headerToPathMap, toLowerCase(f.field))
    /\ LastSegment(MapGet(idx.headerToPathMap, toLowerCase(f.field))) = f.field

C5_CycleIndexed ==
    (Indexed /\ schema = SchemaCycle) =>
        /\ \A f \in FieldsOf("A") : FieldIndexed(f, f.field)
        /\ \A f \in FieldsOf("B") : FieldIndexed(f, Str("b.") \o f.field)

\* C5: index building terminates on every schema, cyclic ones included; the
\* calls that are expanding are never more than the collections; and on the
\* cycle A -> B -> A every field of A and of B has its type entry and a
\* label entry that leads to a field of its name.
C5_IndexBuildingTerminates ==
    /\ []C5_DepthBounded
    /\ <>(pc # "discover")
    /\ []C5_CycleIndexed

\* The cycle was met (the call on A under B returned at once) and the fields
\* of B are in the index.
C5_Witness ==
    /\ Indexed
    /\ schema = SchemaCycle
    /\ Len(skipped) = 1
    /\ skipped[1].collection = "A"
    /\ MapHas(idx.fieldTypesMap, Str("b.label"))

\* The collections of the calls from the outermost to the j-th.
Branch(j) == {stack[i].collection : i \in 1..j}

\* The visited set of every pending call is its own branch: the collections
\* of its ancestors, and itself once it is expanding.
C6_VisitedIsBranch ==
    \A j \in 1..Len(stack) :
        heap[stack[j].visited] = Branch(IF stack[j].at = "loop" THEN j ELSE j - 1)

\* A call returned without expanding only on a collection that an ancestor
\* was expanding.
C6_SkippedOnlyAncestors ==
    \A n \in 1..Len(skipped) : skipped[n].collection \in skipped[n].ancestors

\* No step changes the visited set of a call that waits for a recursive call.
C6_CallersUntouched ==
    \A j \in 1..(Len(stack) - 1) : heap'[stack[j].visited] = heap[stack[j].visited]

\* C6: the visited set is per branch: a collection is skipped only when an
\* ancestor call is expanding it, a collection expanded in a sibling branch
\* is expanded again, and a recursive call leaves the set of its caller as
\* it was.
C6_VisitedPerBranch ==
    /\ [](C6_VisitedIsBranch /\ C6_SkippedOnlyAncestors)
    /\ [][C6_CallersUntouched]_vars

\* B was expanded under b1 and again under b2.
C6_Witness ==
    /\ Indexed
    /\ schema = SchemaDiamond
    /\ readAllCalls = << "A", "B", "B" >>

AllPaths ==
    (DOMAIN idx.fieldTypesMap.vals) \cup Values(idx.headerToPathMap)
        \cup Values(idx.relationFieldPaths)

FieldsNamed(c, name) == {f \in FieldsOf(c) : f.field = name}

\* The segments, read from collection c, name a chain of relation fields
\* (create after a one-to-many field) that ends in a field.
RECURSIVE NamesField(_, _)
NamesField(c, segments) ==
    /\ FieldsNamed(c, Head(segments)) # {}
    /\ \/ Len(segments) = 1
       \/ \E f \in FieldsNamed(c, Head(segments)) :
            /\ RecursionTarget(schema, c, f) # NoCollection
            /\ IF "o2m" \in f.special
               THEN /\ Len(segments) >= 3
                    /\ segments[2] = s_create
                    /\ NamesField(RecursionTarget(schema, c, f),
                                  SubSeq(segments, 3, Len(segments)))
               ELSE NamesField(RecursionTarget(schema, c, f), Tail(segments))

\* C7: every path of the index, read from the root collection, names the
\* full chain of relation fields that leads to its field.
C7_PathsStartAtRoot ==
    \A path \in AllPaths : NamesField(schema.root, split(path, ch_dot))

IsArray(v) == v.t = "array"

\* {create: [one element], update: [], delete: []}
IsSingleCreateTriple(v) ==
    /\ v.t = "object"
    /\ DOMAIN v.f = {s_create, s_update, s_delete}
    /\ IsArray(v.f[s_create]) /\ Len(v.f[s_create].a) = 1
    /\ v.f[s_update] = Arr(<<>>)
    /\ v.f[s_delete] = Arr(<<>>)

IsRelationPath(path) ==
    includes(path, s_create_prefix) /\ split(path, ch_dot)[2] = s_create

\* The relation fields that the headers of a row write into.
RelationWrites(row) ==
    {split(path, ch_dot)[1] :
        path \in {p \in {ResolveHeader(idx, row[k].header) : k \in 1..Len(row)} :
                    IsRelationPath(p)}}

\* C8: in every output record the value under a relation field that a
\* header of the row wrote into is {create: [one element], update: [],
\* delete: []}.
C8_RelationValueIsTriple ==
    \A i \in 1..Len(transformedData) :
        \A f \in RelationWrites(jsonData[i]) :
            IsSingleCreateTriple(GetProp(transformedData[i], f))

RECURSIVE ValueAt(_, _)
ValueAt(v, keys) ==
    IF keys = <<>> THEN v ELSE ValueAt(GetProp(v, Head(keys)), Tail(keys))

\* The post-condition of a write of value at car.create.<keys>.
RelationPostcondition(rel, keys, value) ==
    /\ IsArray(GetProp(rel, s_create))
    /\ Len(GetProp(rel, s_create).a) = 1
    /\ ValueAt(GetProp(rel, s_create).a[1], keys) = value
    /\ IsArray(GetProp(rel, s_update))
    /\ IsArray(GetProp(rel, s_delete))

AlexWritten ==
    Obj(s_car :> Triple(Arr(<< Obj(Str("owner") :> Obj(Str("name") :> String(Str("Alex")))) >>),
                        Arr(<<>>), Arr(<<>>)))

\* C9: a write at car.create.s1...sn into a record whose car is absent or
\* any object (well-formed or not) does not throw and leaves car.create a
\* single-element array that holds the value at s1...sn, and car.update and
\* car.delete arrays; Alex at car.create.owner.name in the empty record
\* gives {car: {create: [{owner: {name: Alex}}], update: [], delete: []}}.
C9_RelationWritePostcondition ==
    (/\ result # Pending
     /\ StartsWith(call.path, Str("car.create."))
     /\ GetProp(call.obj, s_car).t \in {"undefined", "object"}) =>
        /\ ~IsThrow(result)
        /\ RelationPostcondition(GetProp(result, s_car),
                                 SubSeq(split(call.path, ch_dot), 3,
                                        Len(split(call.path, ch_dot))),
                                 call.value)
        /\ (/\ call.obj = EmptyObj
            /\ call.path = Str("car.create.owner.name")
            /\ call.value = String(Str("Alex"))) => result = AlexWritten

Unmapped(cell) == ResolveHeader(idx, cell.header) = NoPath

\* Every unmapped cell among the first n of the row is in the record under
\* its header, with the value that stored gives for it.
PassedThrough(record, row, n, stored(_)) ==
    \A k \in 1..n :
        Unmapped(row[k]) =>
            /\ row[k].header \in DOMAIN record.f
            /\ record.f[row[k].header] = stored(row[k].value)

Verbatim(v) == v

Trimmed(v) == IF v.t = "string" THEN [v EXCEPT !.s = trim(v.s)] ELSE v

AllPassedThrough(stored(_)) ==
    /\ \A i \in 1..Len(transformedData) :
            PassedThrough(transformedData[i], jsonData[i], Len(jsonData[i]), stored)
    /\ InRow => PassedThrough(newRow, jsonData[rowIdx], keyIdx - 1, stored)

\* C10 as stated: a header that resolves to no path is in the record under
\* the header itself, with the raw value unchanged.
C10_PassThroughVerbatim == AllPassedThrough(Verbatim)

\* C10 as amended: a header that resolves to no path is in the record of
\* its row under the header itself, from the moment it is processed on, with
\* the raw value, trimmed when it is a string.
C10_PassThroughTrimmed == AllPassedThrough(Trimmed)

\* An unmapped string cell with white space around it is in a pushed record.
C10_Witness ==
    \E i \in 1..Len(transformedData) :
        /\ Unmapped(Cell(Str("Unknown Col"), Null))
        /\ Cell(Str("Unknown Col"), String(Str(" x "))) \in
                {jsonData[i][k] : k \in 1..Len(jsonData[i])}
        /\ GetProp(transformedData[i], Str("Unknown Col")) = String(Str("x"))

HeaderPool == UNION {{row[k].header : k \in 1..Len(row)} : row \in RowPool}

HasToken(key, tokens) == \E tok \in tokens : includes(key, tok)

\* path is the value of the first key of m, in insertion order, that
\* contains one of the tokens, and no path when no key does.
IsFirstMatch(m, tokens, path) ==
    \/ \E n \in 1..Len(m.keys) :
            /\ HasToken(m.keys[n], tokens)
            /\ \A j \in 1..(n - 1) : ~HasToken(m.keys[j], tokens)
            /\ path = m.vals[m.keys[n]]
    \/ /\ \A n \in 1..Len(m.keys) : ~HasToken(m.keys[n], tokens)
       /\ path = NoPath

\* The tokens of the category that the header, in lower case, names.
CategoryTokens(raw) ==
    IF includes(raw, ru_data) /\ includes(raw, ru_zaezd) THEN {s_date, ru_data}
    ELSE IF includes(raw, ru_telefon) \/ includes(raw, s_phone) THEN {s_phone, ru_telefon}
    ELSE IF includes(raw, ru_imya) /\ includes(raw, ru_klienta) THEN {s_first_name, ru_imya}
    ELSE IF includes(raw, ru_familiya) /\ includes(raw, ru_klienta)
    THEN {s_last_name, s_second_name, ru_familiya}
    ELSE {}

\* path is what the four steps give for the normalized key, the trimmed
\* lower-case header and the lower-case header.
FirstMatchWins(byLabel, byRelationLabel, key, trimmed, raw, path) ==
    IF key \in DOMAIN byLabel.vals THEN path = byLabel.vals[key]
    ELSE IF key \in DOMAIN byRelationLabel.vals THEN path = byRelationLabel.vals[key]
    ELSE IF trimmed \in DOMAIN byLabel.vals THEN path = byLabel.vals[trimmed]
    ELSE IsFirstMatch(byLabel, CategoryTokens(raw), path)

\* C11: a header resolves to byLabel[normalize(header)], else to
\* byRelationLabel[normalize(header)], else to byLabel[trim(lower(header))],
\* else to the value of the first key of byLabel, in insertion order, that
\* contains a token of the header's category, else to nothing.
C11_ResolutionOrder ==
    Indexed =>
        \A h \in HeaderPool :
            FirstMatchWins(idx.headerToPathMap, idx.relationFieldPaths,
                           normalizeHeaderName(h), trim(toLowerCase(h)), toLowerCase(h),
                           ResolveHeader(idx, h))

\* A row whose first header is resolved by the third step and whose second
\* header by the scan of the fourth has been written.
C11_Witness ==
    \E i \in 1..Len(transformedData) :
        /\ schema = SchemaFlat
        /\ jsonData[i] = << Cell(Str("Full Name"), String(Str("Bob"))),
                            Cell(h_telefon_klienta, String(Str("+7 999 123-45-67"))) >>
        /\ transformedData[i] = Obj((Str("title") :> String(Str("Bob")))
                                    @@ (Str("phone") :> String(Str("79991234567"))))

\* C12: normalizing a normalized header changes nothing, and a header that
\* differs from another in letter case or in the white space at its ends
\* only has the same normalized key.
C12_NormalizeIdempotent ==
    result # Pending =>
        /\ normalizeHeaderName(result.s) = result.s
        /\ normalizeHeaderName(call.other) = result.s

\* A header with capitals, quotes, inner white space and a substitution
\* phrase has been normalized, next to a variant in other letter case.
C12_Witness ==
    /\ result # Pending
    /\ call.header = <<34>> \o Str("a ") \o [i \in 1..Len(ru_first_name_phrase) |->
                                        IF ru_first_name_phrase[i] = 95 THEN 32
                                        ELSE ru_first_name_phrase[i]] \o Str("_B")
    /\ call.other # call.header
    /\ result.s = Str("a_first_name_b")

\* The cell of the current row that was processed last.
LastCell == jsonData[rowIdx][keyIdx - 1]

DigitsOf(text) == SelectSeq(text, IsDigit)

\* Eleven digits that start with 8 start with 7 instead; other digit
\* strings stay as they are.
SevenForEight(digits) ==
    IF Len(digits) = 11 /\ digits[1] = 56 THEN <<55>> \o Tail(digits) ELSE digits

\* The record holds, at the path a phone cell resolved to, the digits of
\* the cell.
PhoneWritten(record, cell, path, key) ==
    (path # NoPath /\ IsPhone(path, key)) =>
        ValueAt(record, split(path, ch_dot)) = String(SevenForEight(DigitsOf(ToStr(cell.value))))

\* C13: right after a cell is processed whose path or header key names a
\* phone field, the record holds at that path the digits of the cell, with
\* 7 for a leading 8 when they are eleven, whatever the type of the field.
C13_PhoneNormalized ==
    (InRow /\ keyIdx > 1) =>
        PhoneWritten(newRow, LastCell, ResolveHeader(idx, LastCell.header),
                     normalizeHeaderName(LastCell.header))

DateTypes == {"date", "dateTime", "timestamp"}

IsSerial(value) == value.t = "number" /\ ~value.nan /\ value.int >= 1

\* The ISO string of the instant (serial - 25569) * 86400 * 1000 ms.
SerialInstant(value) == toISOString(MakeDate(value.int - 25569, value.mil * 86400))

SameForDateTypes(value, decoded) ==
    \A ty \in DateTypes : transformValue(value, ty) = decoded

\* C14: for the types date, dateTime and timestamp a serial s whose instant
\* (s - 25569) * 86400 * 1000 ms is a date decodes to that instant: serial 1
\* to 1899-12-31T00:00:00.000Z, serial 45292 to 2024-01-01T00:00:00.000Z;
\* and the three types give the same result for the same input.
C14_SerialDecoded ==
    (result # Pending /\ call.fieldType \in DateTypes) =>
        /\ SameForDateTypes(call.value, result)
        /\ call.value = Whole(1) => result = String(Str("1899-12-31T00:00:00.000Z"))
        /\ call.value = Whole(45292) => result = String(Str("2024-01-01T00:00:00.000Z"))
        /\ (IsSerial(call.value) /\ ~IsThrow(SerialInstant(call.value))) =>
                result = SerialInstant(call.value)

\* The record is the one that the first n cells of the row give, starting
\* from the empty record, with the index as it is.
BuiltFrom(record, row, n) == record = BuildRecord(idx, EmptyObj, SubSeq(row, 1, n))

\* C15: every record is a function of its own row and of the index only:
\* the record pushed for row i, and the one under construction, are what
\* the cells of that row give from the empty record, whatever the other
\* rows are and whatever was processed before.
C15_RowsIndependent ==
    /\ \A i \in 1..Len(transformedData) :
            BuiltFrom(transformedData[i], jsonData[i], Len(jsonData[i]))
    /\ InRow => BuiltFrom(newRow, jsonData[rowIdx], keyIdx - 1)

\* Two different rows have been processed one after the other, the second
\* one the same as a row that is processed first in another run.
C15_Witness ==
    /\ Len(transformedData) = 2
    /\ jsonData[1] # jsonData[2]
    /\ transformedData[1] # EmptyObj
    /\ transformedData[2] = Obj((Str("title") :> String(Str("Bob")))
                                @@ (Str("phone") :> String(Str("79991234567"))))

\* Row processing has begun: the handler is in or past the row loop, or
\* something of a row has been read or written.
RowsBegun ==
    \/ pc \in {"rows", "responded"}
    \/ rowIdx > 1 \/ keyIdx > 1
    \/ newRow # EmptyObj \/ transformedData # <<>>

\* Index building is over: every call of discoverFields has returned and
\* every query of the schema source has been answered.
C16_BuiltBeforeRows == RowsBegun => stack = <<>>

\* A step that writes to the index, or queries the schema source, is a step
\* of index building, taken before anything of a row is processed; no step
\* taken once row processing has begun changes the index.
C16_IndexWrittenOnlyBefore ==
    /\ (idx' # idx \/ readAllCalls' # readAllCalls) => (pc = "discover" /\ ~RowsBegun)
    /\ RowsBegun => idx' = idx

\* C16: the index is complete before the first row is processed, and row
\* processing never adds, changes or removes an entry of it.
C16_IndexFixedDuringRows ==
    /\ []C16_BuiltBeforeRows
    /\ [][C16_IndexWrittenOnlyBefore]_vars

\* Cells are being processed after an index building with a recursive query.
C16_Witness ==
    /\ pc = "rows"
    /\ keyIdx > 1
    /\ schema = SchemaO2M
    /\ readAllCalls = << "A", "B" >>
    /\ MapHas(idx.relationFieldPaths, Str("model"))

\* C17: when the schema source or the sink fails with an error, the error
\* handed to the caller is that error itself, whatever its code and message.
C17_FatalErrorUnchanged ==
    (pc = "failed" /\ raised \in ServiceErrors) => thrown = raised

RootFieldNames == {f.field : f \in FieldsOf(schema.root)}

\* The headers whose normalized form is the name, in lower case.
HeadersNaming(name) ==
    {h \in HeaderPool \cup {name} : normalizeHeaderName(h) = toLowerCase(name)}

\* C18: a header whose normalized form is the direct name of a field of the
\* root collection resolves to that field, at the path that is its name,
\* also when a related collection has a field of the same name and wherever
\* the relation field stands among the fields of the root.
C18_RootFieldsFirst ==
    Indexed =>
        \A name \in RootFieldNames :
            \A h \in HeadersNaming(name) : ResolveHeader(idx, h) = name

\* Both writes of the row have been made.
BothWritten == call.fn = "setByPath twice" /\ result.t \notin {"pending", "first"}

SubKeys(sub) == split(sub, ch_dot)

IsPrefix(p, q) == Len(p) <= Len(q) /\ SubSeq(q, 1, Len(p)) = p

\* car.create is one element that holds x at a and y at b.
Merged(record, a, x, b, y) ==
    /\ ~IsThrow(record)
    /\ IsArray(GetProp(GetProp(record, s_car), s_create))
    /\ Len(GetProp(GetProp(record, s_car), s_create).a) = 1
    /\ ValueAt(GetProp(GetProp(record, s_car), s_create).a[1], SubKeys(a)) = x
    /\ ValueAt(GetProp(GetProp(record, s_car), s_create).a[1], SubKeys(b)) = y

KeysOf(m) == {m.keys[n] : n \in 1..Len(m.keys)}

\* The resolution chain without its second step.
WithoutRelationLabels(ix) == [ix EXCEPT !.relationFieldPaths = EmptyMap]

\* C20: every key of relationFieldPaths is a key of headerToPathMap, while
\* the index is built and after; so a header that misses headerToPathMap
\* misses relationFieldPaths too, and every header resolves as it would
\* with the second step of the chain left out.
C20_RelationLabelsAreLabels ==
    /\ KeysOf(idx.relationFieldPaths) \subseteq KeysOf(idx.headerToPathMap)
    /\ \A h \in HeaderPool :
          /\ ~MapHas(idx.headerToPathMap, toLowerCase(normalizeHeaderName(h))) =>
                ~MapHas(idx.relationFieldPaths, toLowerCase(normalizeHeaderName(h)))
          /\ ResolveHeader(idx, h) = ResolveHeader(WithoutRelationLabels(idx), h)

\* The index of SchemaO2M is complete: relationFieldPaths holds the name of
\* a field behind the one-to-many field, a translation that entered
\* headerToPathMap at line 215, and one that line 214 kept out because a
\* field of the root has that name.
C20_Witness ==
    /\ Indexed
    /\ schema = SchemaO2M
    /\ MapGet(idx.relationFieldPaths, Str("model")) = Str("cars.create.model")
    /\ MapGet(idx.relationFieldPaths, Str("car")) = Str("cars.create.model")
    /\ MapGet(idx.headerToPathMap, Str("car")) = Str("cars.create.model")
    /\ MapGet(idx.relationFieldPaths, Str("id")) = Str("cars.create.model")
    /\ MapGet(idx.headerToPathMap, Str("id")) = Str("id")

\* Line 455 is true of the path and line 457 returns without a write.
WriteSkipped(path) ==
    /\ includes(path, s_create_prefix)
    /\ \/ split(path, ch_dot)[1] = <<>>
       \/ split(path, ch_dot)[2] # s_create

\* What the record holds where setByPath writes for the path.
StoredAt(record, path) ==
    IF includes(path, s_create_prefix)
    THEN ValueAt(GetProp(GetProp(record, split(path, ch_dot)[1]), s_create).a[1],
                 SubSeq(split(path, ch_dot), 3, Len(split(path, ch_dot))))
    ELSE ValueAt(record, split(path, ch_dot))

\* The write for a cell that resolved to path was made.
Written(record, cell, path) ==
    path # NoPath =>
        /\ ~WriteSkipped(path)
        /\ StoredAt(record, path) = MappedValue(idx, path, cell.header, cell.value)

\* C21: every path of the index that contains .create. has create as its
\* second segment, after a first segment that is not empty, so line 457
\* never returns for a path of the index; and right after a header that
\* resolved to a path is processed, the record holds the value written for
\* it at that path.
C21_NoWriteSkipped ==
    /\ \A path \in AllPaths : ~WriteSkipped(path)
    /\ (InRow /\ keyIdx > 1) =>
            Written(newRow, LastCell, ResolveHeader(idx, LastCell.header))

\* The header note resolved to a field behind the one-to-many field items
\* of B, which the walk reaches through the many-to-one field b of the
\* root, and its value is in the record.
C21_Witness ==
    /\ InRow /\ keyIdx > 1
    /\ schema = SchemaChain
    /\ LastCell.header = Str("note")
    /\ ResolveHeader(idx, LastCell.header) = Str("items.create.note")
    /\ GetProp(newRow, Str("items")) =
          Triple(Arr(<< Obj(Str("note") :> String(Str("n"))) >>), Arr(<<>>), Arr(<<>>))

\* C22: over the runs of the 'file' callback and the 'error' callback of
\* one request, at most one terminal action (res.status(200).end() or a
\* call of next with an error) is taken.
C22_AnsweredAtMostOnce == Len(answers) <= 1

=============================================================================
